---- MODULE Spec2Model ----
(***************************************************************************)
(* State-machine model of the Finnhub quote archiver.                      *)
(*                                                                         *)
(*   lambda_function.py  the ingest handler (lambda_handler, store_in_s3), *)
(*                       run by overlapping executions against one bucket  *)
(*                       and one wall clock           -> SpecIngest        *)
(*   deploy.py           the provisioner (LambdaDeployer.deploy and its    *)
(*                       steps), run repeatedly against one cloud account  *)
(*                       and one working directory    -> SpecDeploy        *)
(*                                                                         *)
(* The cloud services, the upstream quote API and the clock are the        *)
(* environment: their answers are inputs drawn with \E.                    *)
(***************************************************************************)
EXTENDS Integers, Sequences, FiniteSets, TLC

VARIABLES
    \* ---- ingest handler (lambda_function.py) ----
    now,            \* the wall clock datetime.utcnow() reads
    ticks,          \* how often the clock advanced
    pc,             \* per execution: "idle", "fetch", "store", "returned", "raised", "gone"
    symbol,         \* per execution: local `symbol`
    current_time,   \* per execution: local `current_time`
    data,           \* per execution: local `data` (the enriched record)
    stored,         \* per execution: what the call of store_in_s3 did
    result,         \* per execution: the value lambda_handler returned
    exception,      \* per execution: the exception raised inside the handler's try block
    hlog,           \* per execution: the messages lambda_handler logged
    upstream,       \* per execution: the upstream answer (status, text, parsed body)
    objects,        \* the bucket: a set of [key, body, by]
    puts,           \* history of successful put_object calls
    \* ---- provisioner (deploy.py) ----
    dpc,            \* position of deploy(): "idle", a step name, "done", "failed"
    run,            \* number of deploy() runs started
    desc,           \* the deployment descriptor of the current run
    cloud,          \* the account: bucket, role, function, rule, permissions, targets
    fs,             \* the working directory: scratch directories and deployment.zip
    calls,          \* cloud calls of the current run, in order
    steps,          \* steps of the current run that completed, in order
    mishap,         \* what went wrong in the current run, in order
    role_arn,       \* local `role_arn` of deploy()
    before,         \* the account as it was when the current run started
    prev            \* outcome of the previous run

ingestVars == <<now, ticks, pc, symbol, current_time, data, stored, result,
                exception, hlog, upstream, objects, puts>>
deployVars == <<dpc, run, desc, cloud, fs, calls, steps, mishap, role_arn, before, prev>>
vars == <<ingestVars, deployVars>>

(***************************************************************************)
(* Bounds                                                                  *)
(***************************************************************************)
MaxExecutions == 2      \* overlapping executions of the handler
MaxTicks == 1           \* clock advances
MaxRuns == 2            \* runs of deploy()

Executions == 1..MaxExecutions

(***************************************************************************)
(* Exceptions.  class is the Python class, code the botocore error code,   *)
(* text what str(e) gives.                                                 *)
(***************************************************************************)
Exc(class, code, text) == [class |-> class, code |-> code, text |-> text]
NoExc == Exc("none", "", "")
AttributeErr == Exc("AttributeError", "", "'NoneType' object has no attribute 'get'")
ConnectionErr == Exc("ConnectionError", "", "Max retries exceeded")
JsonErr == Exc("JSONDecodeError", "", "Expecting value")
TypeErr == Exc("TypeError", "", "list indices must be integers or slices, not str")
EndpointErr == Exc("EndpointConnectionError", "", "Could not connect to the endpoint URL")
ClientErr(code, op) ==
    Exc("ClientError", code, "An error occurred (" \o code \o ") when calling the " \o op \o " operation")

IsClientError(e) == e.class = "ClientError"
Str(e) == e.text

(***************************************************************************)
(* Python dict helpers: a dict is a function from its keys.                *)
(***************************************************************************)
DictGet(d, k, default) == IF k \in DOMAIN d THEN d[k] ELSE default
DictSet(d, k, v) == [x \in (DOMAIN d) \cup {k} |-> IF x = k THEN v ELSE d[x]]

(***************************************************************************)
(* datetime: a timestamp and datetime.isoformat()                          *)
(***************************************************************************)
StartOfClock ==
    [year |-> 2024, month |-> 9, day |-> 9, hour |-> 9,
     minute |-> 5, second |-> 58, microsecond |-> 0]

ClockFields == {"microsecond", "second", "hour"}
FieldLimit(f) ==
    CASE f = "microsecond" -> 999999
      [] f = "second" -> 59
      [] f = "hour" -> 23

RECURSIVE ZeroPad(_, _)
ZeroPad(n, w) ==
    IF w > 1 /\ n < 10 ^ (w - 1) THEN "0" \o ZeroPad(n, w - 1) ELSE ToString(n)

isoformat(t) ==
    ZeroPad(t.year, 4) \o "-" \o ZeroPad(t.month, 2) \o "-" \o ZeroPad(t.day, 2)
    \o "T" \o ZeroPad(t.hour, 2) \o ":" \o ZeroPad(t.minute, 2) \o ":" \o ZeroPad(t.second, 2)
    \o (IF t.microsecond = 0 THEN "" ELSE "." \o ZeroPad(t.microsecond, 6))

(***************************************************************************)
(* lambda_function.py: store_in_s3                                         *)
(***************************************************************************)
S3_BUCKET == "finnhub-stock-data"

\* mutant: the month, day and hour of the path zero-padded as in the ISO timestamp
StorageKeyPadded(sym, t) ==
    sym \o "/" \o ToString(t.year) \o "/" \o ZeroPad(t.month, 2) \o "/" \o ZeroPad(t.day, 2)
    \o "/" \o ZeroPad(t.hour, 2) \o "/" \o isoformat(t) \o ".json"

\* mutant: one object per symbol and hour
StorageKeyHourly(sym, t) ==
    sym \o "/" \o ToString(t.year) \o "/" \o ToString(t.month) \o "/" \o ToString(t.day)
    \o "/" \o ToString(t.hour) \o ".json"

StorageKey(sym, t) ==
    sym \o "/" \o ToString(t.year) \o "/" \o ToString(t.month) \o "/" \o ToString(t.day)
    \o "/" \o ToString(t.hour) \o "/" \o isoformat(t) \o ".json"

\* mutant: only "not found" is fatal
ReRaisedOnlyIfMissing(error_code) == error_code = "404"

\* the error codes for which the bucket check's except clause re-raises
ReRaisedByBucketCheck(error_code) == error_code \in {"404", "403"}

BucketCheckLog(error_code) ==
    CASE error_code = "404" -> <<"S3 bucket " \o S3_BUCKET \o " does not exist">>
      [] error_code = "403" -> <<"Access denied to S3 bucket " \o S3_BUCKET>>
      [] OTHER -> <<>>

\* head and put are what s3.head_bucket and s3.put_object answer: NoExc or the
\* exception they raise.  put is consulted only when put_object is called.
store_in_s3(d, sym, t, head, put) ==
    LET key == StorageKey(sym, t)
        swallowed == /\ head # NoExc
                     /\ IsClientError(head)
                     /\ ~ReRaisedByBucketCheck(head.code)
        checkExc == IF head = NoExc \/ swallowed THEN NoExc ELSE head
        checkLogs == IF head # NoExc /\ IsClientError(head)
                     THEN BucketCheckLog(head.code) ELSE <<>>
        putCalled == checkExc = NoExc
        exc == IF putCalled THEN put ELSE checkExc
        outerLogs ==
            IF exc = NoExc THEN <<"Successfully stored data in S3: " \o key>>
            ELSE IF IsClientError(exc) THEN <<"Error storing data in S3: " \o Str(exc)>>
            ELSE <<"Unexpected error storing data in S3: " \o Str(exc)>>
    IN  [called |-> TRUE,
         head |-> head,
         calls |-> <<"head_bucket">> \o (IF putCalled THEN <<"put_object">> ELSE <<>>),
         logs |-> checkLogs \o outerLogs,
         put |-> IF putCalled THEN put ELSE NoExc,
         raised |-> exc,
         returned |-> IF exc = NoExc THEN key ELSE "",
         wrote |-> IF putCalled /\ put = NoExc THEN {[key |-> key, body |-> d]} ELSE {}]

NotStored ==
    [called |-> FALSE, head |-> NoExc, calls |-> <<>>, logs |-> <<>>, put |-> NoExc,
     raised |-> NoExc,
     returned |-> "", wrote |-> {}]

(***************************************************************************)
(* lambda_function.py: lambda_handler                                      *)
(***************************************************************************)
DefaultSymbol == "AAPL"

\* mutant: `except ClientError`
CatchesClientError(e) == e.class = "ClientError"

\* `except Exception`: every exception the handler's calls raise is an Exception
Catches(e) == e.class \in {"AttributeError", "ConnectionError", "JSONDecodeError",
                           "TypeError", "ClientError", "EndpointConnectionError"}

\* mutant: every status below 500 is taken for a quote
IsNotServerError(status_code) == status_code < 500

IsSuccessStatus(status_code) == status_code = 200

Metadata(sym, t) == [symbol |-> sym, timestamp |-> isoformat(t), source |-> "finnhub"]

SuccessResult(d, s3_key) ==
    [statusCode |-> 200, body |-> [message |-> "Success", data |-> d, s3_key |-> s3_key]]

UpstreamErrorResult(response) ==
    [statusCode |-> response.status_code,
     body |-> [message |-> "Error fetching data from Finnhub", error |-> response.text]]

InternalErrorResult(e) ==
    [statusCode |-> 500, body |-> [message |-> "Internal server error", error |-> Str(e)]]

NoResult == [statusCode |-> 0, body |-> [message |-> ""]]
EmptyDict == [k \in {} |-> k]

\* ---- inputs of the handler ----
NoneEvent == [kind |-> "none", fields |-> EmptyDict]
Events ==
    { NoneEvent,
      [kind |-> "dict", fields |-> [source |-> "aws.events"]],
      [kind |-> "dict", fields |-> [symbol |-> "MSFT"]] }

Response(status_code, text, json) ==
    [exc |-> NoExc, status_code |-> status_code, text |-> text, json |-> json]
NoResponse == Response(0, "", [kind |-> "none", fields |-> EmptyDict])
UpstreamObjects ==
    { [c |-> 150], [c |-> 150, metadata |-> [feed |-> "delayed"]] }
HttpOutcomes ==
    { [exc |-> ConnectionErr, status_code |-> 0, text |-> "",
       json |-> [kind |-> "none", fields |-> EmptyDict]],
      Response(200, "<html>", [kind |-> "invalid", fields |-> EmptyDict]),
      Response(200, "[]", [kind |-> "array", fields |-> EmptyDict]),
      Response(429, "API limit reached", [kind |-> "none", fields |-> EmptyDict]) }
    \cup { Response(200, "{...}", [kind |-> "object", fields |-> f]) : f \in UpstreamObjects }
HeadOutcomes ==
    { NoExc, ClientErr("404", "HeadBucket"), ClientErr("403", "HeadBucket"),
      ClientErr("400", "HeadBucket"), EndpointErr }
PutOutcomes == { NoExc, ClientErr("AccessDenied", "PutObject") }

\* An execution that has returned (or raised) leaves before any other step is
\* taken: leaving touches only its own frame, so every interleaving is equivalent
\* to one in which it leaves at once.
NoneLeaving == \A j \in Executions : pc[j] \notin {"returned", "raised"}

\* ---- the except clause of lambda_handler (lines 103-111): an exception it
\* does not catch leaves the handler (pc "raised") ----
Except(i, e) ==
    /\ exception' = [exception EXCEPT ![i] = e]
    /\ IF Catches(e)
       THEN /\ result' = [result EXCEPT ![i] = InternalErrorResult(e)]
            /\ hlog' = [hlog EXCEPT ![i] = Append(@, "Unexpected error: " \o Str(e))]
            /\ pc' = [pc EXCEPT ![i] = "returned"]
       ELSE /\ pc' = [pc EXCEPT ![i] = "raised"]
            /\ UNCHANGED <<result, hlog>>

\* lines 59-64: read the payload and the clock.  Executions are numbered in the
\* order in which they start.
Invoke(i, event) ==
    /\ NoneLeaving
    /\ pc[i] = "idle"
    /\ IF i = 1 THEN TRUE ELSE pc[i - 1] # "idle"
    /\ IF event.kind = "none"
       THEN /\ Except(i, AttributeErr)
            /\ UNCHANGED <<symbol, current_time>>
       ELSE /\ symbol' = [symbol EXCEPT ![i] = DictGet(event.fields, "symbol", DefaultSymbol)]
            /\ current_time' = [current_time EXCEPT ![i] = now]
            /\ hlog' = [hlog EXCEPT ![i] =
                   Append(@, "Fetching data for symbol: "
                             \o DictGet(event.fields, "symbol", DefaultSymbol))]
            /\ pc' = [pc EXCEPT ![i] = "fetch"]
            /\ UNCHANGED <<result, exception>>
    /\ UNCHANGED <<now, ticks, data, stored, upstream, objects, puts>>
    /\ UNCHANGED deployVars

\* lines 66-80 and 93-101: the GET, the status test, the parse, the metadata block
Fetch(i, http) ==
    /\ NoneLeaving
    /\ pc[i] = "fetch"
    /\ upstream' = [upstream EXCEPT ![i] = http]
    /\ IF http.exc # NoExc
       THEN Except(i, http.exc) /\ UNCHANGED data
       ELSE IF ~IsSuccessStatus(http.status_code)
       THEN /\ hlog' = [hlog EXCEPT ![i] = Append(@, "Error from Finnhub API: "
                            \o ToString(http.status_code) \o " - " \o http.text)]
            /\ result' = [result EXCEPT ![i] = UpstreamErrorResult(http)]
            /\ pc' = [pc EXCEPT ![i] = "returned"]
            /\ UNCHANGED <<data, exception>>
       ELSE IF http.json.kind # "object" /\ http.json.kind # "array"
       THEN Except(i, JsonErr) /\ UNCHANGED data
       ELSE IF http.json.kind = "array"
       THEN Except(i, TypeErr) /\ UNCHANGED data
       ELSE /\ data' = [data EXCEPT ![i] =
                   DictSet(http.json.fields, "metadata", Metadata(symbol[i], current_time[i]))]
            /\ pc' = [pc EXCEPT ![i] = "store"]
            /\ UNCHANGED <<result, exception, hlog>>
    /\ UNCHANGED <<now, ticks, symbol, current_time, stored, objects, puts>>
    /\ UNCHANGED deployVars

\* lines 82-92: store_in_s3 and the success result
Store(i, head, put) ==
    /\ NoneLeaving
    /\ pc[i] = "store"
    /\ LET s == store_in_s3(data[i], symbol[i], current_time[i], head, put)
       IN  /\ stored' = [stored EXCEPT ![i] = s]
           /\ objects' = {o \in objects : \A w \in s.wrote : o.key # w.key}
                         \cup {[key |-> w.key, body |-> w.body, by |-> i] : w \in s.wrote}
           /\ puts' = IF s.wrote = {} THEN puts
                      ELSE Append(puts, [by |-> i,
                                         key |-> (CHOOSE w \in s.wrote : TRUE).key,
                                         symbol |-> symbol[i],
                                         time |-> current_time[i],
                                         replaced |-> {o.by : o \in {x \in objects :
                                             \E w \in s.wrote : x.key = w.key}}])
           /\ IF s.raised # NoExc
              THEN Except(i, s.raised)
              ELSE /\ result' = [result EXCEPT ![i] = SuccessResult(data[i], s.returned)]
                   /\ pc' = [pc EXCEPT ![i] = "returned"]
                   /\ UNCHANGED <<exception, hlog>>
    /\ UNCHANGED <<now, ticks, symbol, current_time, data, upstream>>
    /\ UNCHANGED deployVars

\* the handler's frame is dropped once its caller has the result
Leave(i) ==
    /\ pc[i] \in {"returned", "raised"}
    /\ pc' = [pc EXCEPT ![i] = "gone"]
    /\ symbol' = [symbol EXCEPT ![i] = ""]
    /\ current_time' = [current_time EXCEPT ![i] = StartOfClock]
    /\ data' = [data EXCEPT ![i] = EmptyDict]
    /\ stored' = [stored EXCEPT ![i] = NotStored]
    /\ result' = [result EXCEPT ![i] = NoResult]
    /\ exception' = [exception EXCEPT ![i] = NoExc]
    /\ hlog' = [hlog EXCEPT ![i] = <<>>]
    /\ upstream' = [upstream EXCEPT ![i] = NoResponse]
    /\ UNCHANGED <<now, ticks, objects, puts>>
    /\ UNCHANGED deployVars

\* the wall clock advances
Tick(f) ==
    /\ NoneLeaving
    /\ ticks < MaxTicks
    /\ now[f] < FieldLimit(f)
    /\ now' = [now EXCEPT ![f] = @ + 1]
    /\ ticks' = ticks + 1
    /\ UNCHANGED <<pc, symbol, current_time, data, stored, result, exception, hlog,
                   upstream, objects, puts>>
    /\ UNCHANGED deployVars

(***************************************************************************)
(* config.py: the deployment descriptor                                    *)
(***************************************************************************)
Timeout == 30
MemorySize == 128
FunctionName == "finnhub-stock-data"
RoleName == "lambda-finnhub-role"
RuleName == "finnhub-data-schedule"

LAMBDA_CONFIG ==
    [runtime |-> "python3.9", handler |-> "lambda_function.lambda_handler",
     timeout |-> Timeout, memory_size |-> MemorySize,
     api_key |-> "key-1", schedule_expression |-> "rate(1 hour)"]

\* the descriptor as shipped, and after an operator's edit of config.py and .env
Descriptors ==
    { LAMBDA_CONFIG,
      [LAMBDA_CONFIG EXCEPT !.timeout = 2 * Timeout, !.api_key = "key-2"] }

AccountId == "123456789012"
Region == "us-east-1"
RoleArn == "arn:aws:iam::" \o AccountId \o ":role/" \o RoleName
FunctionArn == "arn:aws:lambda:" \o Region \o ":" \o AccountId \o ":function:" \o FunctionName
OtherArn == "arn:aws:lambda:" \o Region \o ":" \o AccountId \o ":function:other"
BasicExecutionPolicy == "arn:aws:iam::aws:policy/service-role/AWSLambdaBasicExecutionRole"

(***************************************************************************)
(* The cloud account.  A call named by `fault` fails with an error the     *)
(* code does not expect.                                                   *)
(***************************************************************************)
Unexpected(op) == ClientErr("ServiceUnavailable", op)
OSErr(what) == Exc("OSError", "", what)
\* not an exception: `pip install` ended with a non-zero exit status
PipFailed == Exc("ExitStatus", "1", "pip install -r requirements.txt")

NoConfig ==
    [Runtime |-> "", Handler |-> "", Role |-> "", Timeout |-> 0, MemorySize |-> 0,
     Environment |-> [FINNHUB_API_KEY |-> ""]]
OldConfig ==
    [Runtime |-> "python3.8", Handler |-> "lambda_function.lambda_handler",
     Role |-> RoleArn, Timeout |-> 3, MemorySize |-> MemorySize,
     Environment |-> [FINNHUB_API_KEY |-> "key-0"]]

NoRole == [exists |-> FALSE, attached |-> {}, inline |-> {}]
NoFunction == [exists |-> FALSE, code |-> {}, config |-> NoConfig]
NoCloud ==
    [bucket |-> "absent", role |-> NoRole, function |-> NoFunction,
     rules |-> {}, permissions |-> {}, targets |-> EmptyDict]

\* the accounts deploy() may be run against for the first time
CloudStarts ==
    { [bucket |-> b, role |-> r, function |-> fp[1], rules |-> rt[1],
       permissions |-> fp[2], targets |-> rt[2]] :
        b \in {"absent", "present", "forbidden"},
        r \in {NoRole, [exists |-> TRUE, attached |-> {}, inline |-> {}]},
        fp \in { <<NoFunction, {}>>,
                 <<[exists |-> TRUE, code |-> {"lambda_function.py"}, config |-> OldConfig], {}>>,
                 <<[exists |-> TRUE, code |-> {"lambda_function.py"}, config |-> OldConfig],
                   {"EventBridgeInvoke"}>> },
        rt \in { <<{}, EmptyDict>>,
                 <<{[name |-> RuleName, schedule |-> "rate(1 day)"]}, EmptyDict>>,
                 <<{[name |-> RuleName, schedule |-> "rate(1 day)"]}, [x \in {"1"} |-> OtherArn]>>,
                 <<{[name |-> RuleName, schedule |-> "rate(1 day)"]}, [x \in {"2"} |-> OtherArn]>> } }

\* what a step did: the account afterwards, the calls it issued, the exception
\* it raised (NoExc: none)
Did(c, ops, e) == [cloud |-> c, calls |-> ops, exc |-> e]
\* one cloud call and the error code it answered with ("": it succeeded)
Call(op, e) == [op |-> op, err |-> e.code]

(***************************************************************************)
(* deploy.py: create_s3_bucket                                             *)
(***************************************************************************)
head_bucket(c, fault) ==
    IF fault = "head_bucket" THEN Unexpected("HeadBucket")
    ELSE CASE c.bucket = "present" -> NoExc
           [] c.bucket = "absent" -> ClientErr("404", "HeadBucket")
           [] c.bucket = "forbidden" -> ClientErr("403", "HeadBucket")

create_s3_bucket(c, fault) ==
    LET head == head_bucket(c, fault)
    IN  IF head = NoExc THEN Did(c, <<Call("head_bucket", head)>>, NoExc)
        ELSE IF head.code = "404"
        THEN IF fault = "create_bucket"
             THEN Did(c, <<Call("head_bucket", head),
                           Call("create_bucket", Unexpected("CreateBucket"))>>,
                      Unexpected("CreateBucket"))
             ELSE Did([c EXCEPT !.bucket = "present"],
                      <<Call("head_bucket", head), Call("create_bucket", NoExc)>>, NoExc)
        ELSE Did(c, <<Call("head_bucket", head)>>, head)

(***************************************************************************)
(* deploy.py: create_zip_package.  The working directory: the number of    *)
(* scratch directories that exist, and deployment.zip.                     *)
(***************************************************************************)
NoZip == [state |-> "absent", files |-> {}]
CleanDir == [scratch |-> 0, zip |-> NoZip]

\* the finally clause of create_zip_package
rmtree(f) == [f EXCEPT !.scratch = @ - 1]

\* pip is the exit status of `pip install`, which os.system returns and the
\* code drops; fault names the operation that raises
create_zip_package(f, pip, fault) ==
    IF fault = "mkdtemp" THEN [fs |-> f, exc |-> OSErr("mkdtemp"), zip_path |-> ""]
    ELSE
    LET made == [f EXCEPT !.scratch = @ + 1]
        deps == IF pip = 0 THEN {"site-packages"} ELSE {}
        files == deps \cup {"lambda_function.py", ".env"}
    IN  IF fault = "copy_handler"
        THEN [fs |-> rmtree(made), exc |-> OSErr("lambda_function.py"), zip_path |-> ""]
        ELSE IF fault = "copy_env"
        THEN [fs |-> rmtree(made), exc |-> OSErr(".env"), zip_path |-> ""]
        ELSE IF fault = "zip_write"
        THEN [fs |-> rmtree([made EXCEPT !.zip = [state |-> "partial", files |-> deps]]),
              exc |-> OSErr("zipfile"), zip_path |-> ""]
        ELSE [fs |-> rmtree([made EXCEPT !.zip = [state |-> "complete", files |-> files]]),
              exc |-> NoExc, zip_path |-> "deployment.zip"]

(***************************************************************************)
(* deploy.py: create_or_update_role                                        *)
(***************************************************************************)
create_or_update_role(c, fault) ==
    LET create == IF fault = "create_role" THEN Unexpected("CreateRole")
                  ELSE IF c.role.exists THEN ClientErr("EntityAlreadyExists", "CreateRole")
                  ELSE NoExc
        c1 == IF create = NoExc THEN [c EXCEPT !.role.exists = TRUE] ELSE c
        ops1 == <<Call("create_role", create)>>
    IN  IF create # NoExc /\ create.code # "EntityAlreadyExists"
        THEN Did(c, ops1, create)
        ELSE IF create # NoExc /\ fault = "get_role"
        THEN Did(c1, Append(ops1, Call("get_role", Unexpected("GetRole"))), Unexpected("GetRole"))
        ELSE
        LET ops2 == IF create = NoExc THEN ops1 ELSE Append(ops1, Call("get_role", NoExc))
        IN  IF fault = "attach_role_policy"
            THEN Did(c1, Append(ops2, Call("attach_role_policy", Unexpected("AttachRolePolicy"))),
                     Unexpected("AttachRolePolicy"))
            ELSE
            LET c2 == [c1 EXCEPT !.role.attached = @ \cup {BasicExecutionPolicy}]
                ops3 == Append(ops2, Call("attach_role_policy", NoExc))
            IN  IF fault = "put_role_policy"
                THEN Did(c2, Append(ops3, Call("put_role_policy", Unexpected("PutRolePolicy"))),
                         Unexpected("PutRolePolicy"))
                ELSE Did([c2 EXCEPT !.role.inline = @ \cup {"S3AccessPolicy"}],
                         Append(ops3, Call("put_role_policy", NoExc)), NoExc)

(***************************************************************************)
(* deploy.py: deploy_lambda                                                *)
(***************************************************************************)
ConfigFor(d, arn) ==
    [Runtime |-> d.runtime, Handler |-> d.handler, Role |-> arn, Timeout |-> d.timeout,
     MemorySize |-> d.memory_size, Environment |-> [FINNHUB_API_KEY |-> d.api_key]]

\* mutant: the update branch replaces the code and leaves the configuration
update_code_only(c, d, arn, zip, fault) ==
    IF fault = "update_function_code"
    THEN Did(c, <<Call("get_function", NoExc),
                  Call("update_function_code", Unexpected("UpdateFunctionCode"))>>,
             Unexpected("UpdateFunctionCode"))
    ELSE Did([c EXCEPT !.function.code = zip.files],
             <<Call("get_function", NoExc), Call("update_function_code", NoExc)>>, NoExc)

\* the update branch, lines 139-159
update_function(c, d, arn, zip, fault) ==
    IF fault = "update_function_code"
    THEN Did(c, <<Call("get_function", NoExc),
                  Call("update_function_code", Unexpected("UpdateFunctionCode"))>>,
             Unexpected("UpdateFunctionCode"))
    ELSE
    LET c1 == [c EXCEPT !.function.code = zip.files]
        ops == <<Call("get_function", NoExc), Call("update_function_code", NoExc)>>
    IN  IF fault = "update_function_configuration"
        THEN Did(c1, Append(ops, Call("update_function_configuration",
                                      Unexpected("UpdateFunctionConfiguration"))),
                 Unexpected("UpdateFunctionConfiguration"))
        ELSE Did([c1 EXCEPT !.function.config = ConfigFor(d, arn)],
                 Append(ops, Call("update_function_configuration", NoExc)), NoExc)

deploy_lambda(c, d, arn, zip, fault) ==
    IF zip.state # "complete" THEN Did(c, <<>>, OSErr("deployment.zip"))
    ELSE
    LET get == IF fault = "get_function" THEN Unexpected("GetFunction")
               ELSE IF c.function.exists THEN NoExc
               ELSE ClientErr("ResourceNotFoundException", "GetFunction")
    IN  IF get = NoExc THEN update_function(c, d, arn, zip, fault)
        ELSE IF get.code = "ResourceNotFoundException"
        THEN IF fault = "create_function"
             THEN Did(c, <<Call("get_function", get),
                           Call("create_function", Unexpected("CreateFunction"))>>,
                      Unexpected("CreateFunction"))
             ELSE Did([c EXCEPT !.function =
                          [exists |-> TRUE, code |-> zip.files, config |-> ConfigFor(d, arn)]],
                      <<Call("get_function", get), Call("create_function", NoExc)>>, NoExc)
        ELSE Did(c, <<Call("get_function", get)>>, get)

(***************************************************************************)
(* deploy.py: setup_eventbridge                                            *)
(***************************************************************************)
\* mutant: every call adds a target under the next free Id
put_targets_appending(targets, id, arn) ==
    DictSet(targets, ToString(Cardinality(DOMAIN targets) + 1), arn)

\* events.put_targets adds the targets or, by Id, replaces them
put_targets(targets, id, arn) == DictSet(targets, id, arn)

setup_eventbridge(c, d, fault) ==
    IF fault = "put_rule"
    THEN Did(c, <<Call("put_rule", Unexpected("PutRule"))>>, Unexpected("PutRule"))
    ELSE
    LET c1 == [c EXCEPT !.rules = {r \in @ : r.name # RuleName}
                            \cup {[name |-> RuleName, schedule |-> d.schedule_expression]}]
        perm == IF fault = "add_permission" THEN Unexpected("AddPermission")
                ELSE IF ~c.function.exists
                THEN ClientErr("ResourceNotFoundException", "AddPermission")
                ELSE IF "EventBridgeInvoke" \in c.permissions
                THEN ClientErr("ResourceConflictException", "AddPermission")
                ELSE NoExc
        c2 == IF perm = NoExc THEN [c1 EXCEPT !.permissions = @ \cup {"EventBridgeInvoke"}]
              ELSE c1
        ops == <<Call("put_rule", NoExc), Call("add_permission", perm)>>
    IN  IF perm # NoExc /\ perm.code # "ResourceConflictException"
        THEN Did(c1, ops, perm)
        ELSE IF fault = "put_targets"
        THEN Did(c2, Append(ops, Call("put_targets", Unexpected("PutTargets"))),
                 Unexpected("PutTargets"))
        ELSE Did([c2 EXCEPT !.targets = put_targets(@, "1", FunctionArn)],
                 Append(ops, Call("put_targets", NoExc)), NoExc)

(***************************************************************************)
(* deploy.py: deploy                                                       *)
(***************************************************************************)
\* mutant: the artifact is removed at the end of the try block, not in a finally
deploy_cleanup_on_success(f, failed) == IF failed THEN f ELSE [f EXCEPT !.zip = NoZip]

\* the finally clause of deploy(): runs whether or not the run failed
deploy_cleanup(f, failed) == [f EXCEPT !.zip = NoZip]

StepOrder ==
    <<"create_s3_bucket", "create_zip_package", "create_or_update_role", "wait",
      "deploy_lambda", "setup_eventbridge">>
StepOf(op) ==
    CASE op \in {"head_bucket", "create_bucket"} -> 1
      [] op \in {"create_role", "get_role", "attach_role_policy", "put_role_policy"} -> 3
      [] op \in {"get_function", "update_function_code", "update_function_configuration",
                 "create_function"} -> 5
      [] op \in {"put_rule", "add_permission", "put_targets"} -> 6

\* a step that used the cloud ends: on an exception the except and finally
\* clauses of deploy() run and the exception reaches the operator
EndStep(did, next) ==
    /\ cloud' = did.cloud
    /\ calls' = calls \o did.calls
    /\ IF did.exc # NoExc
       THEN /\ dpc' = "failed"
            /\ mishap' = Append(mishap, did.exc)
            /\ fs' = deploy_cleanup(fs, TRUE)
            /\ UNCHANGED steps
       ELSE /\ dpc' = next
            /\ steps' = Append(steps, dpc)
            /\ fs' = IF next = "done" THEN deploy_cleanup(fs, FALSE) ELSE fs
            /\ UNCHANGED mishap

StartDeploy(d) ==
    /\ dpc \in {"idle", "done", "failed"}
    /\ run < MaxRuns
    /\ run' = run + 1
    /\ desc' = d
    /\ prev' = dpc
    /\ before' = cloud
    /\ dpc' = "create_s3_bucket"
    /\ calls' = <<>>
    /\ steps' = <<>>
    /\ mishap' = <<>>
    /\ role_arn' = ""
    /\ UNCHANGED <<cloud, fs>>
    /\ UNCHANGED ingestVars

StepBucket(fault) ==
    /\ dpc = "create_s3_bucket"
    /\ EndStep(create_s3_bucket(cloud, fault), "create_zip_package")
    /\ UNCHANGED <<run, desc, role_arn, before, prev>>
    /\ UNCHANGED ingestVars

StepPackage(pip, fault) ==
    /\ dpc = "create_zip_package"
    /\ LET built == create_zip_package(fs, pip, fault)
       IN  IF built.exc # NoExc
           THEN /\ dpc' = "failed"
                /\ mishap' = mishap \o (IF pip = 0 THEN <<>> ELSE <<PipFailed>>)
                                    \o <<built.exc>>
                /\ fs' = deploy_cleanup(built.fs, TRUE)
                /\ UNCHANGED steps
           ELSE /\ dpc' = "create_or_update_role"
                /\ mishap' = mishap \o (IF pip = 0 THEN <<>> ELSE <<PipFailed>>)
                /\ fs' = built.fs
                /\ steps' = Append(steps, dpc)
    /\ UNCHANGED <<run, desc, cloud, calls, role_arn, before, prev>>
    /\ UNCHANGED ingestVars

StepRole(fault) ==
    /\ dpc = "create_or_update_role"
    /\ LET did == create_or_update_role(cloud, fault)
       IN  /\ EndStep(did, "wait")
           /\ role_arn' = IF did.exc = NoExc THEN RoleArn ELSE role_arn
    /\ UNCHANGED <<run, desc, before, prev>>
    /\ UNCHANGED ingestVars

\* time.sleep(10)
StepWait ==
    /\ dpc = "wait"
    /\ dpc' = "deploy_lambda"
    /\ steps' = Append(steps, dpc)
    /\ UNCHANGED <<run, desc, cloud, fs, calls, mishap, role_arn, before, prev>>
    /\ UNCHANGED ingestVars

StepFunction(fault) ==
    /\ dpc = "deploy_lambda"
    /\ EndStep(deploy_lambda(cloud, desc, role_arn, fs.zip, fault), "setup_eventbridge")
    /\ UNCHANGED <<run, desc, role_arn, before, prev>>
    /\ UNCHANGED ingestVars

StepTrigger(fault) ==
    /\ dpc = "setup_eventbridge"
    /\ EndStep(setup_eventbridge(cloud, desc, fault), "done")
    /\ UNCHANGED <<run, desc, role_arn, before, prev>>
    /\ UNCHANGED ingestVars

BucketFaults == {"none", "head_bucket", "create_bucket"}
PackageFaults == {"none", "mkdtemp", "copy_handler", "copy_env", "zip_write"}
RoleFaults == {"none", "create_role", "get_role", "attach_role_policy", "put_role_policy"}
FunctionFaults == {"none", "get_function", "update_function_code",
                   "update_function_configuration", "create_function"}
TriggerFaults == {"none", "put_rule", "add_permission", "put_targets"}

InitIngest ==
    /\ now = StartOfClock
    /\ ticks = 0
    /\ pc = [i \in Executions |-> "idle"]
    /\ symbol = [i \in Executions |-> ""]
    /\ current_time = [i \in Executions |-> StartOfClock]
    /\ data = [i \in Executions |-> EmptyDict]
    /\ stored = [i \in Executions |-> NotStored]
    /\ result = [i \in Executions |-> NoResult]
    /\ exception = [i \in Executions |-> NoExc]
    /\ hlog = [i \in Executions |-> <<>>]
    /\ upstream = [i \in Executions |-> NoResponse]
    /\ objects = {}
    /\ puts = <<>>
    \* the provisioner is not running
    /\ dpc = "idle"
    /\ run = 0
    /\ desc = LAMBDA_CONFIG
    /\ cloud = NoCloud
    /\ fs = CleanDir
    /\ calls = <<>>
    /\ steps = <<>>
    /\ mishap = <<>>
    /\ role_arn = ""
    /\ before = NoCloud
    /\ prev = "idle"

NextIngest ==
    \/ \E i \in Executions, event \in Events : Invoke(i, event)
    \/ \E i \in Executions, http \in HttpOutcomes : Fetch(i, http)
    \/ \E i \in Executions, head \in HeadOutcomes, put \in PutOutcomes : Store(i, head, put)
    \/ \E i \in Executions : Leave(i)
    \/ \E f \in ClockFields : Tick(f)

SpecIngest == InitIngest /\ [][NextIngest]_vars

InitDeploy ==
    /\ dpc = "idle"
    /\ run = 0
    /\ desc = LAMBDA_CONFIG
    /\ cloud \in CloudStarts
    /\ fs \in {CleanDir, [CleanDir EXCEPT !.zip = [state |-> "complete", files |-> {"stale"}]]}
    /\ calls = <<>>
    /\ steps = <<>>
    /\ mishap = <<>>
    /\ role_arn = ""
    /\ before = cloud
    /\ prev = "idle"
    \* no execution of the handler
    /\ now = StartOfClock
    /\ ticks = 0
    /\ pc = [i \in Executions |-> "idle"]
    /\ symbol = [i \in Executions |-> ""]
    /\ current_time = [i \in Executions |-> StartOfClock]
    /\ data = [i \in Executions |-> EmptyDict]
    /\ stored = [i \in Executions |-> NotStored]
    /\ result = [i \in Executions |-> NoResult]
    /\ exception = [i \in Executions |-> NoExc]
    /\ hlog = [i \in Executions |-> <<>>]
    /\ upstream = [i \in Executions |-> NoResponse]
    /\ objects = {}
    /\ puts = <<>>

NextDeploy ==
    \/ \E d \in Descriptors : StartDeploy(d)
    \/ \E fault \in BucketFaults : StepBucket(fault)
    \/ \E pip \in {0, 1}, fault \in PackageFaults : StepPackage(pip, fault)
    \/ \E fault \in RoleFaults : StepRole(fault)
    \/ StepWait
    \/ \E fault \in FunctionFaults : StepFunction(fault)
    \/ \E fault \in TriggerFaults : StepTrigger(fault)

SpecDeploy == InitDeploy /\ [][NextDeploy]_vars

(***************************************************************************)
(* Properties of the ingest handler (SpecIngest).  They are read when an   *)
(* execution has returned or raised, before its frame is dropped.          *)
(***************************************************************************)
Ended(i) == pc[i] \in {"returned", "raised"}
PutsBy(i) == {k \in DOMAIN puts : puts[k].by = i}
ExpectedKey(i) ==
    symbol[i] \o "/" \o ToString(current_time[i].year) \o "/" \o ToString(current_time[i].month)
    \o "/" \o ToString(current_time[i].day) \o "/" \o ToString(current_time[i].hour)
    \o "/" \o isoformat(current_time[i]) \o ".json"
ExpectedMetadata(i) ==
    [symbol |-> symbol[i], timestamp |-> isoformat(current_time[i]), source |-> "finnhub"]
GotQuote(i) ==
    /\ upstream[i].exc = NoExc
    /\ upstream[i].status_code = 200
    /\ upstream[i].json.kind = "object"

\* C1: lambda_handler never propagates an exception: whatever exception is
\* raised while reading the payload, during the GET, while parsing the body or
\* in store_in_s3 (a re-raised bucket-check or put_object error included), the
\* handler returns statusCode 500 with the exception's description in the body.
C1_NeverPropagates ==
    \A i \in Executions :
        /\ pc[i] # "raised"
        /\ (Ended(i) /\ exception[i] # NoExc) =>
              /\ pc[i] = "returned"
              /\ result[i].statusCode = 500
              /\ DOMAIN result[i].body = {"message", "error"}
              /\ result[i].body.error = Str(exception[i])

\* C1 witness: a bucket-check error re-raised by store_in_s3 came back as a 500
C1_Witness ==
    \E i \in Executions :
        /\ pc[i] = "returned"
        /\ stored[i].called
        /\ stored[i].head = ClientErr("404", "HeadBucket")
        /\ exception[i] = stored[i].head
        /\ result[i].statusCode = 500

\* C2: when the upstream answers with a status other than 200, the handler
\* performs no storage operation (no bucket check, no put_object) and returns
\* the upstream status code with the upstream error text.
C2_NonOkMirrored ==
    \A i \in Executions :
        (/\ Ended(i)
         /\ upstream[i] # NoResponse
         /\ upstream[i].exc = NoExc
         /\ upstream[i].status_code # 200) =>
            /\ pc[i] = "returned"
            /\ ~stored[i].called
            /\ stored[i].calls = <<>>
            /\ PutsBy(i) = {}
            /\ result[i].statusCode = upstream[i].status_code
            /\ DOMAIN result[i].body = {"message", "error"}
            /\ result[i].body.error = upstream[i].text

\* C2 witness: an upstream 429 came back as statusCode 429 with the bucket untouched
C2_Witness ==
    \E i \in Executions :
        /\ pc[i] = "returned"
        /\ upstream[i].status_code = 429
        /\ result[i].statusCode = 429
        /\ objects = {}

\* the parts of C4 that do not concern the body of the object
C4_StatusAndKey(i) ==
    /\ (result[i].statusCode = 200) <=> (Cardinality(PutsBy(i)) = 1)
    /\ Cardinality(PutsBy(i)) <= 1
    /\ result[i].statusCode = 200 =>
          /\ GotQuote(i)
          /\ \A k \in PutsBy(i) : puts[k].key = ExpectedKey(i)
          /\ \E o \in objects : o.key = ExpectedKey(i) /\ o.by = i /\ o.body = data[i]
          /\ result[i].body.s3_key = ExpectedKey(i)
          /\ result[i].body.data = data[i]
          /\ DOMAIN data[i] = (DOMAIN upstream[i].json.fields) \cup {"metadata"}
          /\ data[i]["metadata"] = ExpectedMetadata(i)

\* C4 as claimed: statusCode 200 iff exactly one object was written by the
\* invocation; its key is {symbol}/{year}/{month}/{day}/{hour}/{iso}.json of
\* the invocation's symbol and capture timestamp; its body is the upstream
\* fields plus the metadata block; the response's s3_key is the key written.
C4_AsClaimed ==
    \A i \in Executions :
        pc[i] = "returned" =>
            /\ C4_StatusAndKey(i)
            /\ result[i].statusCode = 200 =>
                  \A f \in DOMAIN upstream[i].json.fields :
                      data[i][f] = upstream[i].json.fields[f]

\* C4 amended: as claimed, except that the body carries the upstream fields
\* other than one named "metadata": the metadata block replaces an upstream
\* field of that name.
C4_OneObjectPerSuccess ==
    \A i \in Executions :
        pc[i] = "returned" =>
            /\ C4_StatusAndKey(i)
            /\ result[i].statusCode = 200 =>
                  \A f \in (DOMAIN upstream[i].json.fields) \ {"metadata"} :
                      data[i][f] = upstream[i].json.fields[f]

\* C4 witness: a success whose upstream body had a field named metadata
C4_Witness ==
    \E i \in Executions :
        /\ pc[i] = "returned"
        /\ result[i].statusCode = 200
        /\ "metadata" \in DOMAIN upstream[i].json.fields
        /\ Cardinality(PutsBy(i)) = 1

\* C5 as claimed: every execution that writes uses a key distinct from the key
\* of every other execution, so no put_object replaces another execution's
\* object.
C5_AsClaimed ==
    /\ \A k1, k2 \in DOMAIN puts : k1 # k2 => puts[k1].key # puts[k2].key
    /\ \A k \in DOMAIN puts : puts[k].replaced = {}

\* C5 amended: two executions that write use the same key exactly when they
\* captured the same symbol at the same timestamp; executions whose symbol or
\* capture timestamp differ use distinct keys, and a put_object replaces only
\* an object written for the same symbol and timestamp.
C5_KeysDistinctAcrossCaptures ==
    /\ \A k1, k2 \in DOMAIN puts :
          (puts[k1].key = puts[k2].key)
             <=> (puts[k1].symbol = puts[k2].symbol /\ puts[k1].time = puts[k2].time)
    /\ \A k \in DOMAIN puts :
          \A b \in puts[k].replaced :
              \E j \in 1..(k - 1) :
                  /\ puts[j].by = b
                  /\ puts[j].symbol = puts[k].symbol
                  /\ puts[j].time = puts[k].time

\* C5 witness: two captures of one symbol at different timestamps were written
C5_Witness ==
    \E k1, k2 \in DOMAIN puts :
        /\ k1 # k2
        /\ puts[k1].symbol = puts[k2].symbol
        /\ puts[k1].time # puts[k2].time
        /\ puts[k1].key # puts[k2].key

\* C6: in store_in_s3 a bucket check answering 404 or 403 is logged (with a
\* message of its own) and re-raised, put_object is not called and the bucket
\* is never created; a failure of put_object is re-raised as well.
C6_BucketErrorsReRaised ==
    \A i \in Executions :
        stored[i].called =>
            /\ \A k \in DOMAIN stored[i].calls : stored[i].calls[k] # "create_bucket"
            /\ stored[i].head = ClientErr("404", "HeadBucket") =>
                  /\ stored[i].raised = stored[i].head
                  /\ stored[i].calls = <<"head_bucket">>
                  /\ stored[i].wrote = {}
                  /\ stored[i].logs[1] = "S3 bucket finnhub-stock-data does not exist"
                  /\ exception[i] = stored[i].head
            /\ stored[i].head = ClientErr("403", "HeadBucket") =>
                  /\ stored[i].raised = stored[i].head
                  /\ stored[i].calls = <<"head_bucket">>
                  /\ stored[i].wrote = {}
                  /\ stored[i].logs[1] = "Access denied to S3 bucket finnhub-stock-data"
                  /\ exception[i] = stored[i].head
            /\ stored[i].put # NoExc =>
                  /\ stored[i].raised = stored[i].put
                  /\ stored[i].returned = ""
                  /\ Len(stored[i].logs) >= 1
                  /\ exception[i] = stored[i].put

\* C6 witness: the bucket check answered 403, which store_in_s3 re-raised
C6_Witness ==
    \E i \in Executions :
        /\ stored[i].called
        /\ stored[i].head = ClientErr("403", "HeadBucket")
        /\ stored[i].raised = stored[i].head
        /\ objects = {}

\* C10: store_in_s3 calls put_object only after head_bucket succeeded: for
\* every client error of the bucket check, not only 404 and 403, the error is
\* raised to the caller and no object write is attempted.
C10_PutOnlyAfterCheck ==
    \A i \in Executions :
        (stored[i].called /\ IsClientError(stored[i].head)) =>
            /\ stored[i].raised = stored[i].head
            /\ \A k \in DOMAIN stored[i].calls : stored[i].calls[k] # "put_object"

(***************************************************************************)
(* Properties of the provisioner (SpecDeploy)                              *)
(***************************************************************************)
RunEnded == dpc \in {"done", "failed"}
\* an error the environment injected: a cloud call or a file operation failing
Injected(e) == e.class = "OSError" \/ e.code = "ServiceUnavailable"
CreateOps == {"create_bucket", "create_role", "create_function"}
Inventory(c) ==
    [bucket |-> c.bucket, role |-> c.role, function |-> c.function.exists,
     rules |-> c.rules, permissions |-> c.permissions, targets |-> c.targets]
IsPrefix(a, b) == Len(a) <= Len(b) /\ \A k \in DOMAIN a : a[k] = b[k]

\* C3: deploy() run again on the account a successful run left completes
\* without a fatal error (no cloud call or file operation failing on its own),
\* creates no bucket, role, function, rule, permission or target anew, and
\* leaves the function's configuration equal to the current descriptor.
C3_Idempotent ==
    (/\ RunEnded
     /\ prev = "done"
     /\ \A k \in DOMAIN mishap : ~Injected(mishap[k])) =>
        /\ dpc = "done"
        /\ \A k \in DOMAIN calls : calls[k].op \in CreateOps => calls[k].err # ""
        /\ Inventory(cloud) = Inventory(before)
        /\ Cardinality(cloud.rules) = 1
        /\ cloud.permissions = {"EventBridgeInvoke"}
        /\ cloud.function.config = ConfigFor(desc, RoleArn)

\* C3 witness: a second run, with an edited descriptor, after a successful one
C3_Witness ==
    /\ dpc = "done"
    /\ prev = "done"
    /\ mishap = <<>>
    /\ before.function.config # ConfigFor(desc, RoleArn)
    /\ cloud.function.config = ConfigFor(desc, RoleArn)

\* C7: deploy() runs its steps strictly in order, a step starting only after
\* every earlier one completed without error: once any operation of steps 1-6
\* has failed (the dependency installation included) deploy() raises, issues
\* no cloud call of a later step and rolls nothing back.
C7_AbortsOnAnyFailure ==
    /\ IsPrefix(steps, StepOrder)
    /\ \A k \in DOMAIN calls : StepOf(calls[k].op) <= Len(steps) + 1
    /\ mishap # <<>> =>
          /\ dpc = "failed"
          /\ \A k \in DOMAIN calls : StepOf(calls[k].op) <= Len(steps) + 1

\* C8: whichever step succeeds or fails, when deploy() has returned or raised
\* the scratch directory of packaging is gone and deployment.zip does not exist.
C8_NoBuildResidue ==
    RunEnded => (fs.scratch = 0 /\ fs.zip.state = "absent" /\ fs.zip.files = {})

\* C8 witness: packaging failed with the archive partly written
C8_Witness ==
    /\ dpc = "failed"
    /\ \E k \in DOMAIN mishap : mishap[k] = OSErr("zipfile")
    /\ fs = CleanDir

\* C9 as claimed: after setup_eventbridge succeeded the rule's target set holds
\* the function and nothing else, whatever the rule's targets were before.
C9_AsClaimed ==
    dpc = "done" =>
        /\ DOMAIN cloud.targets = {"1"}
        /\ cloud.targets["1"] = FunctionArn

\* C9 amended: after setup_eventbridge succeeded the function is the rule's
\* target with Id "1", replacing whatever had that Id; targets the rule had
\* under other Ids are kept.
C9_FunctionIsTargetOne ==
    dpc = "done" =>
        /\ DOMAIN cloud.targets = (DOMAIN before.targets) \cup {"1"}
        /\ cloud.targets["1"] = FunctionArn
        /\ \A id \in (DOMAIN before.targets) \ {"1"} : cloud.targets[id] = before.targets[id]
        /\ \E r \in cloud.rules : r.name = RuleName /\ r.schedule = desc.schedule_expression

\* C9 witness: the rule had another function as target "1"; it was replaced
C9_Witness ==
    /\ dpc = "done"
    /\ run = 1
    /\ "1" \in DOMAIN before.targets
    /\ before.targets["1"] = OtherArn
    /\ cloud.targets["1"] = FunctionArn

====
